---- MODULE Spec2Model ----
(***************************************************************************)
(* Model of the ascii4 converter and player.                               *)
(*                                                                         *)
(*  - run_conversion (src/src/convert.rs): the loop that samples decoded   *)
(*    frames by presentation timestamp, buckets them by second and writes  *)
(*    <output>/<second>/<n>.txt.                                           *)
(*    The older converter of src/src/main.rs runs the same loop without    *)
(*    the scoped CleanupGuard; program tells the two apart.                *)
(*  - discover_and_sort_frames (src/src/play.rs): the scan that turns a    *)
(*    frame store back into one ordered sequence of paths.                 *)
(*  - play_animation (src/src/play.rs): terminal guard, audio sink, scan,  *)
(*    load, and the timed playback loop with looping and audio sync.       *)
(*    The older player of src/src/player.rs reads each frame when its     *)
(*    turn comes and restores the terminal by hand; its steps are Player*. *)
(*                                                                         *)
(* File and directory names are sequences of one-character strings, so     *)
(* that formatting (to_string, "{}.txt") and parsing (parse::<u64>,        *)
(* file_stem, extension) are computed the way the code computes them.      *)
(* Option<T> is a sequence of length 0 (None) or 1 (Some).                 *)
(***************************************************************************)
EXTENDS Integers, Sequences, FiniteSets, TLC

VARIABLES
    program,                  \* which converter runs: "convert" (convert.rs) or "main" (main.rs)
    pc,                       \* position of the converter: "setup", "packets", "drain", "done", "failed", "idle"
    frame_time_base,          \* <<numerator, denominator>> of the stream time base
    video_fps,                \* source frame rate
    target_fps,               \* args.fps
    min_pts_difference,       \* the sampling threshold
    video_frame_count,        \* frames scanned
    total_output_frames,      \* frames reported as emitted
    last_processed_time_pts,  \* pts of the last kept frame, -1 before the first
    last_processed_second,    \* Option<u64>: bucket of the last kept frame
    current_second_dir,       \* Option<name>: directory of that bucket
    frame_count_in_second,    \* in-bucket counter
    temp_frame_exists,        \* whether <output>/_temp_frame.png exists
    disk,                     \* the frame store: a set of root entries
    lastFrame,                \* history: what the last receive_frame step saw and did
    keptLog,                  \* history: current_pts of every kept frame, in order
    writeLog,                 \* history: path of every created frame file, in order
    play_pc,                  \* position of the player: "idle", "scanned" (a scan alone); "start",
                              \* "audio", "scan", "load", "pass", "frame", "sleep", "delay", "stop",
                              \* "finished", "failed", "killed" (play_animation)
    listing,                  \* the order in which read_dir yielded the entries of the last scan
    ordered_frames,           \* Option<Result>: outcome of discover_and_sort_frames
    fps,                      \* options.fps
    loop_gif,                 \* options.loop_gif
    sync,                     \* options.sync
    audio,                    \* options.audio: Option<path>
    root_readable,            \* whether read_dir(options.frames_dir) succeeds
    terminal,                 \* "normal", or "alt": alternate screen with the cursor hidden
    frame_contents,           \* Option<Vec>: the loaded frames, each named by its path
    frame_index,              \* position of the for loop over frame_contents, from 1
    pass,                     \* number of the current call of playback_loop, from 1
    clock,                    \* Instant::now(), in ticks
    last_frame_time,          \* the Instant the current frame started at
    trace,                    \* history: what the player did to the sink, the screen and the clock
    play_result               \* "none" while running, "ok", or the error play_animation returned

confVars == <<program, frame_time_base, video_fps, target_fps, min_pts_difference>>
convVars == <<confVars, pc, video_frame_count, total_output_frames,
              last_processed_time_pts, last_processed_second, current_second_dir,
              frame_count_in_second, temp_frame_exists, lastFrame, keptLog, writeLog>>
optVars == <<fps, loop_gif, sync, audio, root_readable>>
playerVars == <<optVars, terminal, frame_contents, frame_index, pass, clock,
                last_frame_time, trace, play_result>>
playVars == <<play_pc, listing, ordered_frames, playerVars>>
vars == <<convVars, disk, playVars>>

----------------------------------------------------------------------------
(* Bounds of the model.                                                    *)

MaxFrames == 3
MaxPts == 2
MaxRoot == 2
MaxKids == 2
MaxPasses == 2
TicksPerSecond == 2

----------------------------------------------------------------------------
(* Generic helpers.                                                        *)

None == <<>>
Some(x) == <<x>>

unwrap_or(opt, default) == IF opt = None THEN default ELSE opt[1]

Abs(x) == IF x < 0 THEN -x ELSE x

Last(s) == s[Len(s)]

\* All orders in which the elements of a finite set can be enumerated.
Perms(S) ==
    { s \in [1..Cardinality(S) -> S] :
        \A i, j \in 1..Cardinality(S) : i # j => s[i] # s[j] }

----------------------------------------------------------------------------
(* Names: formatting and parsing.                                          *)

Digits == <<"0", "1", "2", "3", "4", "5", "6", "7", "8", "9">>

IsDigit(c) == \E d \in 1..10 : Digits[d] = c
DigitVal(c) == (CHOOSE d \in 1..10 : Digits[d] = c) - 1

TXT == <<"t", "x", "t">>
PNG == <<"p", "n", "g">>

\* u64::to_string: decimal digits, no sign, no padding.
RECURSIVE to_string(_)
to_string(n) ==
    IF n < 10 THEN <<Digits[n + 1]>>
    ELSE to_string(n \div 10) \o <<Digits[(n % 10) + 1]>>

\* format!("{n}.txt")
frame_file_name(n) == to_string(n) \o <<".">> \o TXT

RECURSIVE digits_value(_, _)
digits_value(s, acc) ==
    IF s = <<>> THEN acc ELSE digits_value(Tail(s), acc * 10 + DigitVal(Head(s)))

\* A parse that never fails: a name that is no number reads as 0.
parse_lenient(s) ==
    IF s # <<>> /\ \A i \in 1..Len(s) : IsDigit(s[i])
    THEN [ok |-> TRUE, val |-> digits_value(s, 0)]
    ELSE [ok |-> TRUE, val |-> 0]

\* str::parse::<u64>: an optional leading '+', then one or more decimal
\* digits; anything else (empty, lone sign, '-', a non-digit) is an error.
parse_u64(s) ==
    LET digits == IF s # <<>> /\ Head(s) = "+" THEN Tail(s) ELSE s
    IN IF digits # <<>> /\ \A i \in 1..Len(digits) : IsDigit(digits[i])
       THEN [ok |-> TRUE, val |-> digits_value(digits, 0)]
       ELSE [ok |-> FALSE, val |-> 0]

\* Position of the last '.' of a name that splits stem from extension, 0
\* when there is none (no dot, or only a leading dot).
split_dot(name) ==
    LET dots == { i \in 2..Len(name) : name[i] = "." }
    IN IF dots = {} THEN 0 ELSE CHOOSE i \in dots : \A j \in dots : j <= i

\* Path::file_stem
file_stem(name) ==
    IF split_dot(name) = 0 THEN name ELSE SubSeq(name, 1, split_dot(name) - 1)

\* Path::extension, as an Option
extension(name) ==
    IF split_dot(name) = 0 THEN None
    ELSE Some(SubSeq(name, split_dot(name) + 1, Len(name)))

is_txt(name) == extension(name) = Some(TXT)

----------------------------------------------------------------------------
(* The frame store on disk.                                                *)
(* A root entry is [name, kind, readable, kids]; kind is "dir", "file" or  *)
(* "other"; kids is the set of [name, kind] entries of a directory.        *)

DirEntry(name, kids) ==
    [name |-> name, kind |-> "dir", readable |-> TRUE, kids |-> kids]
FileEntry(name) ==
    [name |-> name, kind |-> "file", readable |-> TRUE, kids |-> {}]
Kid(name, kind) == [name |-> name, kind |-> kind]

\* fs::create_dir_all(root/name) fails when a non-directory has the name.
dir_blocked(d, name) == \E e \in d : e.name = name /\ e.kind # "dir"

\* fs::create_dir_all(root/name): create if absent, keep if present.
create_dir_all(d, name) ==
    IF \E e \in d : e.name = name THEN d ELSE d \cup {DirEntry(name, {})}

\* fs::File::create(root/dir/file): create or truncate.
file_create(d, dir, file) ==
    { IF e.name = dir /\ e.kind = "dir"
      THEN [e EXCEPT !.kids = @ \cup {Kid(file, "file")}]
      ELSE e : e \in d }

----------------------------------------------------------------------------
(* run_conversion: configuration.                                          *)

\* <<source frame rate, target frame rate>> pairs of a run.
FpsPairs == { <<3, 2>>, <<1, 2>>, <<2, 5>>, <<2, -2>> }

\* <<numerator, denominator>> of the stream time base.
TimeBases == { <<1, 1>>, <<1, 2>> }

\* decoded_frame.pts(): None when the decoder reports no timestamp.
PtsValues == {None} \cup { Some(p) : p \in -1..MaxPts }

\* What happens to a kept frame on its way to the store.
FrameOutcomes ==
    { "ok", "dir_fail", "scale_fail", "buffer_fail", "save_fail",
      "ascii_fail", "create_fail", "write_fail" }

\* f64::round of a / b for b # 0: half away from zero.
round_div(a, b) ==
    LET q == (2 * Abs(a) + Abs(b)) \div (2 * Abs(b))
    IN IF (a < 0) # (b < 0) THEN -q ELSE q

\* The largest threshold of the model; it stands for i64::MAX, the value
\* an infinite f64 is cast to.
I64_MAX == 2147483647

\* (video_fps / target_fps).round() as i64. A target of zero makes the
\* quotient +inf (cast to i64::MAX), -inf (cast to i64::MIN) or NaN (cast
\* to 0).
compute_min_pts_difference(src, target) ==
    IF target = 0
    THEN IF src > 0 THEN I64_MAX ELSE IF src < 0 THEN -I64_MAX - 1 ELSE 0
    ELSE round_div(src, target)

\* A keep decision that wants more than threshold ticks between kept frames.
decide_strict(current_pts, last_pts, threshold) ==
    /\ current_pts >= 0
    /\ (last_pts = -1 \/ (current_pts - last_pts) > threshold)

\* The keep decision of the receive loop.
decide(current_pts, last_pts, threshold) ==
    /\ current_pts >= 0
    /\ (last_pts = -1 \/ (current_pts - last_pts) >= threshold)

\* A bucket computed by rounding the seconds up.
current_second_ceil(current_pts, tb) ==
    LET q == (current_pts * tb[1] + tb[2] - 1) \div tb[2]
    IN IF q < 0 THEN 0 ELSE q

\* The largest bucket number of the model; it stands for u64::MAX, the value
\* an infinite f64 is cast to.
U64_MAX == 2147483647

\* (pts as f64 * num as f64 / den as f64).floor() as u64; the cast
\* saturates at 0. Exact for the magnitudes of the model (below 2^53).
\* A zero denominator makes the quotient NaN (0.0 / 0.0, cast to 0), -inf
\* (cast to 0) or +inf (cast to u64::MAX).
compute_current_second(current_pts, tb) ==
    IF tb[2] = 0
    THEN IF current_pts * tb[1] > 0 THEN U64_MAX ELSE 0
    ELSE LET q == (current_pts * tb[1]) \div tb[2]
         IN IF q < 0 THEN 0 ELSE q

\* main.rs: round(den / (fps * num)) when 0 < fps < source rate, else 1;
\* then .max(1).
main_min_pts_difference(src, target, tb) ==
    LET t == IF target > 0 /\ target < src
             THEN round_div(tb[2], target * tb[1]) ELSE 1
    IN IF t < 1 THEN 1 ELSE t

\* A scratch file that Drop forgets to remove.
cleanup_guard_forget(exists) == exists

\* CleanupGuard::drop: if the path exists, remove_file; gives whether the
\* scratch file exists afterwards.
cleanup_guard_drop(exists) == FALSE

\* main.rs after the packet loop: if temp_frame_path.exists() remove_file.
remove_temp_frame(exists) == FALSE

\* The scratch file when run_conversion returns: convert.rs holds a
\* CleanupGuard from line 31 on, main.rs holds none.
on_return(prog, exists) ==
    IF prog = "convert" THEN cleanup_guard_drop(exists) ELSE exists

\* A failed create_dir_all that is only reported.
on_create_dir_error_ignored(p) == p

\* fs::create_dir_all(...).with_context(...)? : run_conversion returns Err.
on_create_dir_error(p) == "failed"

\* A per-frame failure that ends the run.
on_frame_error_fatal(p) == "failed"

\* eprintln!(warning) and continue: the loop goes on with the next frame.
on_frame_error(p) == p

\* The outcomes after which img_buf.save has written the scratch file.
SavedOutcomes == { "ok", "ascii_fail", "create_fail", "write_fail" }

\* lastFrame before the first frame: what the packet loop last received
\* (count is video_frame_count after it).
NoFrame ==
    [seen |-> FALSE, count |-> 0, pts |-> None, kept |-> FALSE,
     prev_kept |-> <<>>, wrote |-> None, outcome |-> "none"]

\* play_animation has not been called.
PlayerIdle ==
    /\ fps = 1
    /\ loop_gif = FALSE
    /\ sync = FALSE
    /\ audio = None
    /\ root_readable = TRUE
    /\ terminal = "normal"
    /\ frame_contents = None
    /\ frame_index = 0
    /\ pass = 0
    /\ clock = 0
    /\ last_frame_time = 0
    /\ trace = <<>>
    /\ play_result = "none"

\* An output directory nothing was written to yet.
FreshDir == [disk |-> {}, temp |-> FALSE]

\* The state after the options are read and the output directory exists
\* (convert.rs line 31, main.rs line 82), for program prog, an output
\* directory out, frame rates drawn from rates and a time base from bases.
InitRun(prog, out, rates, bases) ==
    /\ pc = "setup"
    /\ program = prog
    /\ \E f \in rates, tb \in bases :
         /\ video_fps = f[1]
         /\ target_fps = f[2]
         /\ frame_time_base = tb
         /\ min_pts_difference =
              IF prog = "convert" THEN compute_min_pts_difference(f[1], f[2])
              ELSE main_min_pts_difference(f[1], f[2], tb)
    /\ video_frame_count = 0
    /\ total_output_frames = 0
    /\ last_processed_time_pts = -1
    /\ last_processed_second = None
    /\ current_second_dir = None
    /\ frame_count_in_second = 0
    /\ disk = out.disk
    /\ temp_frame_exists = out.temp
    /\ lastFrame = NoFrame
    /\ keptLog = <<>>
    /\ writeLog = <<>>
    /\ play_pc = "idle"
    /\ listing = <<>>
    /\ ordered_frames = None
    /\ PlayerIdle

\* run_conversion of convert.rs into a fresh output directory.
Init == InitRun("convert", FreshDir, FpsPairs, TimeBases)

----------------------------------------------------------------------------
(* run_conversion: opening the input.                                      *)

\* main.rs lines 70-72: a time base with denominator zero is refused.
\* convert.rs reads the time base at line 46 and does not look at it.
time_base_refused(prog, tb) == prog = "main" /\ tb[2] = 0

\* Input, stream, decoder and scaler are set up; the packet loop starts.
SetupDone ==
    /\ pc = "setup"
    /\ ~time_base_refused(program, frame_time_base)
    /\ pc' = "packets"
    /\ UNCHANGED <<confVars, video_frame_count, total_output_frames,
                   last_processed_time_pts, last_processed_second,
                   current_second_dir, frame_count_in_second, temp_frame_exists,
                   disk, lastFrame, keptLog, writeLog, playVars>>

\* Opening the input, finding the video stream, or creating the decoder or
\* the scaler fails: the ? returns Err.
SetupFails ==
    /\ pc = "setup"
    /\ pc' = "failed"
    /\ temp_frame_exists' = on_return(program, temp_frame_exists)
    /\ UNCHANGED <<confVars, video_frame_count, total_output_frames,
                   last_processed_time_pts, last_processed_second,
                   current_second_dir, frame_count_in_second,
                   disk, lastFrame, keptLog, writeLog, playVars>>

----------------------------------------------------------------------------
(* run_conversion: the receive loop.                                       *)

\* A sampler that remembers the timestamp of every frame it sees.
last_pts_always(keep, current_pts, last_pts) == current_pts

\* last_processed_time_pts = current_pts is the first statement inside the
\* if of the keep decision; the if has no else.
last_pts_after(keep, current_pts, last_pts) ==
    IF keep THEN current_pts ELSE last_pts

\* A sampler that remembers a timestamp only once the frame is in the store.
kept_pts_if_persisted(current_pts, last_pts, persisted) ==
    IF persisted THEN current_pts ELSE last_pts

\* The timestamp remembered for a kept frame: the assignment of line 117
\* comes before create_dir_all, the scaler, the scratch save, the text
\* conversion and the file write, so it is made whether or not they succeed.
kept_pts(current_pts, last_pts, persisted) == current_pts

\* One Ok(()) of decoder.receive_frame inside the packet loop.
ReceiveFrame(pts, outcome) ==
    /\ pc = "packets"
    /\ video_frame_count < MaxFrames
    /\ LET current_pts == unwrap_or(pts, 0)
           keep == decide(current_pts, last_processed_time_pts, min_pts_difference)
           current_second == compute_current_second(current_pts, frame_time_base)
           new_second == last_processed_second # Some(current_second)
           second_dir == to_string(current_second)
           count == IF new_second THEN 1 ELSE frame_count_in_second + 1
           dir_error == new_second /\ (outcome = "dir_fail" \/ dir_blocked(disk, second_dir))
           with_dir == IF new_second THEN create_dir_all(disk, second_dir) ELSE disk
           converted == outcome \in {"ok", "create_fail", "write_fail"}
           created == outcome \in {"ok", "write_fail"}
           output_filename == frame_file_name(count)
           saved == temp_frame_exists \/ outcome \in SavedOutcomes
           next_pc == IF outcome = "ok" THEN pc ELSE on_frame_error(pc)
           persisted == ~dir_error /\ outcome = "ok"
       IN /\ video_frame_count' = video_frame_count + 1
          /\ last_processed_time_pts' =
               last_pts_after(keep,
                              kept_pts(current_pts, last_processed_time_pts, persisted),
                              last_processed_time_pts)
          /\ lastFrame' = [seen |-> TRUE, count |-> video_frame_count + 1,
                           pts |-> pts, kept |-> keep, prev_kept |-> keptLog,
                           wrote |-> IF keep /\ ~dir_error /\ created
                                     THEN Some(<<second_dir, output_filename>>)
                                     ELSE None,
                           outcome |-> IF ~keep THEN "skip"
                                       ELSE IF dir_error THEN "dir_fail"
                                       ELSE IF outcome = "ok" THEN "ok"
                                       ELSE "frame_fail"]
          /\ IF ~keep
             THEN /\ outcome = "ok"
                  /\ UNCHANGED <<pc, total_output_frames,
                                 last_processed_second, current_second_dir,
                                 frame_count_in_second, temp_frame_exists, disk,
                                 keptLog, writeLog>>
             ELSE /\ keptLog' = Append(keptLog, current_pts)
                  /\ IF dir_error
                     THEN /\ pc' = on_create_dir_error(pc)
                          /\ temp_frame_exists' =
                               IF pc' = "failed"
                               THEN on_return(program, temp_frame_exists)
                               ELSE temp_frame_exists
                          /\ UNCHANGED <<total_output_frames, last_processed_second,
                                         current_second_dir, frame_count_in_second,
                                         disk, writeLog>>
                     ELSE /\ outcome # "dir_fail"
                          /\ pc' = next_pc
                          /\ temp_frame_exists' =
                               IF next_pc = "failed" THEN on_return(program, saved)
                               ELSE saved
                          /\ last_processed_second' = Some(current_second)
                          /\ current_second_dir' = Some(second_dir)
                          /\ frame_count_in_second' = count
                          /\ total_output_frames' =
                               IF converted THEN total_output_frames + 1
                               ELSE total_output_frames
                          /\ disk' = IF created
                                     THEN file_create(with_dir, second_dir, output_filename)
                                     ELSE with_dir
                          /\ writeLog' = IF created
                                         THEN Append(writeLog, <<second_dir, output_filename>>)
                                         ELSE writeLog
    /\ UNCHANGED <<confVars, playVars>>

\* decoder.send_packet fails with an error that is neither Error::Other
\* (nor, in main.rs, Eof): run_conversion returns Err.
SendPacketFails ==
    /\ pc = "packets"
    /\ pc' = "failed"
    /\ temp_frame_exists' = on_return(program, temp_frame_exists)
    /\ UNCHANGED <<confVars, video_frame_count, total_output_frames,
                   last_processed_time_pts, last_processed_second,
                   current_second_dir, frame_count_in_second,
                   disk, lastFrame, keptLog, writeLog, playVars>>

\* The packet loop ends (main.rs removes the scratch file here), then
\* decoder.send_eof().
SendEof ==
    /\ pc = "packets"
    /\ pc' = "drain"
    /\ temp_frame_exists' =
         IF program = "main" THEN remove_temp_frame(temp_frame_exists)
         ELSE temp_frame_exists
    /\ UNCHANGED <<confVars, video_frame_count, total_output_frames,
                   last_processed_time_pts, last_processed_second,
                   current_second_dir, frame_count_in_second,
                   disk, lastFrame, keptLog, writeLog, playVars>>

\* A drain loop that samples: the frame is kept with the timestamp 0.
DrainFrameSampled ==
    /\ pc = "drain"
    /\ video_frame_count < MaxFrames
    /\ video_frame_count' = video_frame_count + 1
    /\ last_processed_time_pts' = 0
    /\ keptLog' = Append(keptLog, 0)
    /\ UNCHANGED <<confVars, pc, total_output_frames,
                   last_processed_second, current_second_dir, frame_count_in_second,
                   temp_frame_exists, disk, lastFrame, writeLog, playVars>>

\* One Ok(()) of decoder.receive_frame after end of input: counted only.
DrainFrame ==
    /\ pc = "drain"
    /\ video_frame_count < MaxFrames
    /\ video_frame_count' = video_frame_count + 1
    /\ UNCHANGED <<confVars, pc, total_output_frames, last_processed_time_pts,
                   last_processed_second, current_second_dir, frame_count_in_second,
                   temp_frame_exists, disk, lastFrame, keptLog, writeLog, playVars>>

\* The drain loop ends and run_conversion returns Ok(()).
FinishConversion ==
    /\ pc = "drain"
    /\ pc' = "done"
    /\ temp_frame_exists' = on_return(program, temp_frame_exists)
    /\ UNCHANGED <<confVars, video_frame_count, total_output_frames,
                   last_processed_time_pts, last_processed_second,
                   current_second_dir, frame_count_in_second,
                   disk, lastFrame, keptLog, writeLog, playVars>>

----------------------------------------------------------------------------
(* discover_and_sort_frames.                                               *)
(* A listing is the store as read_dir yields it: a sequence of root        *)
(* entries, each directory carrying the sequence of its own entries.       *)

\* All listings of one root entry: its kids in every order.
ListEntry(e) ==
    { [name |-> e.name, kind |-> e.kind, readable |-> e.readable, kids |-> k] :
        k \in Perms(e.kids) }

\* All orders in which read_dir can yield the entries of store d.
Listings(d) ==
    UNION { { l \in [1..Cardinality(d) -> UNION { ListEntry(e) : e \in d }] :
                \A i \in 1..Cardinality(d) : l[i] \in ListEntry(p[i]) } :
            p \in Perms(d) }

FrameInfo(path, number) == [path |-> path, number |-> number]
SecondInfo(number, frames) == [number |-> number, frames |-> frames]

\* Vec::sort_by_key(|x| x.number): a stable sort.
RECURSIVE sort_by_key(_)
sort_by_key(s) ==
    IF s = <<>> THEN <<>>
    ELSE LET sorted == sort_by_key(SubSeq(s, 1, Len(s) - 1))
             x == Last(s)
             k == Cardinality({ i \in 1..Len(sorted) : sorted[i].number <= x.number })
         IN SubSeq(sorted, 1, k) \o <<x>> \o SubSeq(sorted, k + 1, Len(sorted))

\* The inner loop over the entries of one second directory.
RECURSIVE scan_second(_, _)
scan_second(kids, dir) ==
    IF kids = <<>> THEN <<>>
    ELSE LET k == Head(kids)
             p == parse_u64(file_stem(k.name))
             rest == scan_second(Tail(kids), dir)
         IN IF k.kind = "file" /\ is_txt(k.name) /\ p.ok
            THEN <<FrameInfo(<<dir, k.name>>, p.val)>> \o rest
            ELSE rest

\* seconds.iter_mut().find(|s| s.number == 0): index of the first, or 0.
find_second_0(seconds) ==
    LET zs == { i \in 1..Len(seconds) : seconds[i].number = 0 }
    IN IF zs = {} THEN 0 ELSE CHOOSE i \in zs : \A j \in zs : i <= j

\* The body of the loop over the root's entries, for one entry.
scan_entry(acc, e) ==
    IF ~acc.ok THEN acc
    ELSE IF e.kind = "dir"
    THEN LET p == parse_u64(e.name)
             frames == sort_by_key(scan_second(e.kids, e.name))
         IN IF ~p.ok THEN acc
            ELSE IF ~e.readable THEN [ok |-> FALSE, seconds |-> <<>>]
            ELSE IF frames = <<>> THEN acc
            ELSE [ok |-> TRUE, seconds |-> Append(acc.seconds, SecondInfo(p.val, frames))]
    ELSE IF e.kind = "file" /\ is_txt(e.name)
    THEN LET p == parse_u64(file_stem(e.name))
             z == find_second_0(acc.seconds)
             f == FrameInfo(<<e.name>>, p.val)
         IN IF ~p.ok THEN acc
            ELSE IF z # 0
            THEN [ok |-> TRUE,
                  seconds |-> [acc.seconds EXCEPT ![z].frames = Append(@, f)]]
            ELSE [ok |-> TRUE, seconds |-> Append(acc.seconds, SecondInfo(0, <<f>>))]
    ELSE acc

RECURSIVE scan_root(_, _)
scan_root(l, acc) ==
    IF l = <<>> THEN acc ELSE scan_root(Tail(l), scan_entry(acc, Head(l)))

RECURSIVE flatten(_)
flatten(seconds) ==
    IF seconds = <<>> THEN <<>>
    ELSE [i \in 1..Len(Head(seconds).frames) |-> Head(seconds).frames[i].path]
         \o flatten(Tail(seconds))

\* discover_and_sort_frames(base_dir), given what read_dir yields.
discover_and_sort_frames(l) ==
    LET scanned == scan_root(l, [ok |-> TRUE, seconds |-> <<>>])
        z == find_second_0(scanned.seconds)
        seconds == IF z = 0 THEN scanned.seconds
                   ELSE [scanned.seconds EXCEPT ![z].frames = sort_by_key(@)]
    IN IF ~scanned.ok THEN [ok |-> FALSE, frames |-> <<>>]
       ELSE [ok |-> TRUE, frames |-> flatten(sort_by_key(seconds))]

\* play_animation scans the frames directory; read_dir yields listing l.
ScanFrames(l) ==
    /\ pc \in {"done", "failed", "idle"}
    /\ ordered_frames = None
    /\ listing' = l
    /\ ordered_frames' = Some(discover_and_sort_frames(l))
    /\ play_pc' = "scanned"
    /\ UNCHANGED <<convVars, disk, playerVars>>

\* The orders read_dir may yield once a scan can start.
ReadDirOrders ==
    IF pc \in {"done", "failed", "idle"} /\ ordered_frames = None
    THEN Listings(disk) ELSE {}

----------------------------------------------------------------------------
(* Frame stores of any content, as the player may be pointed at.           *)

txt(stem) == stem \o <<".">> \o TXT

TEMP_FRAME ==
    <<"_", "t", "e", "m", "p", "_", "f", "r", "a", "m", "e", ".">> \o PNG

\* Entries a second directory may hold: frames 1, 01 and 2, and entries
\* that are no frames: a stem that is no number, a file that is no text
\* file, a directory.
KidCands ==
    { Kid(txt(<<"1">>), "file"), Kid(txt(<<"0", "1">>), "file"),
      Kid(txt(<<"2">>), "file"), Kid(txt(<<"a">>), "file"),
      Kid(<<"1", ".">> \o PNG, "file"), Kid(txt(<<"3">>), "dir") }

FrameKids == { k \in KidCands : k.name \in { txt(<<"1">>), txt(<<"2">>) } }

RECURSIVE SetsUpTo(_, _)
SetsUpTo(C, n) ==
    IF n = 0 THEN {{}}
    ELSE LET S == SetsUpTo(C, n - 1)
         IN S \cup { s \cup {c} : s \in S, c \in C }

\* Entries the root may hold: second directories 0, 00 and 1, a directory
\* whose name is no number, directories that cannot be read, loose frame
\* files 1, 3 and +2, and files that are no frames.
RootCands ==
    { DirEntry(<<"0">>, k) : k \in SetsUpTo(KidCands, MaxKids) }
    \cup { DirEntry(<<"0", "0">>, k) : k \in SetsUpTo(FrameKids, MaxKids) }
    \cup { DirEntry(<<"1">>, k) : k \in SetsUpTo(FrameKids, MaxKids) \ {{}} }
    \cup { DirEntry(<<"x">>, {}), DirEntry(<<"x">>, {Kid(txt(<<"1">>), "file")}) }
    \cup { [name |-> <<"y">>, kind |-> "dir", readable |-> FALSE, kids |-> {}],
           [name |-> <<"2">>, kind |-> "dir", readable |-> FALSE, kids |-> {}] }
    \cup { FileEntry(txt(<<"1">>)), FileEntry(txt(<<"3">>)),
           FileEntry(txt(<<"+", "2">>)),
           FileEntry(txt(<<"b">>)), FileEntry(TEMP_FRAME) }
    \cup { [name |-> txt(<<"4">>), kind |-> "other", readable |-> TRUE, kids |-> {}] }

\* A directory holds one entry per name.
Stores ==
    { d \in SetsUpTo(RootCands, MaxRoot) :
        \A e, f \in d : e.name = f.name => e = f }

InitStore ==
    /\ pc = "idle"
    /\ program = "convert"
    /\ temp_frame_exists = FALSE
    /\ frame_time_base = <<1, 1>>
    /\ video_fps = 1
    /\ target_fps = 1
    /\ min_pts_difference = 1
    /\ video_frame_count = 0
    /\ total_output_frames = 0
    /\ last_processed_time_pts = -1
    /\ last_processed_second = None
    /\ current_second_dir = None
    /\ frame_count_in_second = 0
    /\ disk \in Stores
    /\ lastFrame = NoFrame
    /\ keptLog = <<>>
    /\ writeLog = <<>>
    /\ play_pc = "idle"
    /\ listing = <<>>
    /\ ordered_frames = None
    /\ PlayerIdle

----------------------------------------------------------------------------
(* play_animation.                                                         *)
(* Time is counted in ticks, TicksPerSecond to the second; it passes while *)
(* a frame is rendered and while the player sleeps.                        *)

\* Ticks that rendering one frame may take: less and more than a frame
\* lasts.
RenderTimes == {1, 3}

\* safe_sleep("10ms") between two passes, in ticks.
DelayTicks == 1

\* Duration::from_secs_f64(1.0 / options.fps), in ticks.
frame_duration(f) == TicksPerSecond \div f

\* A sleep of a whole frame, whatever time has passed.
plain_sleep(a, b) == a

\* Duration::saturating_sub
saturating_sub(a, b) == IF a > b THEN a - b ELSE 0

\* A check that lets an empty sequence through.
is_empty_never(frames) == FALSE

\* Vec::is_empty
is_empty(frames) == frames = <<>>

\* A guard whose drop leaves the screen as it is.
terminal_guard_leak(t) == t

\* TerminalGuard::drop: cursor::Show, LeaveAlternateScreen, flush.
terminal_guard_drop(t) == "normal"

\* TerminalGuard::new: EnterAlternateScreen, cursor::Hide.
terminal_guard_new(t) == "alt"

\* A playback loop that restarts the audio unless options.sync is set.
audio_restart_inverted(sync_flag) == ~sync_flag

\* if options.sync { sink.stop(); ... load_audio_file ... }
audio_restart(sync_flag) == sync_flag

\* A player that goes on with another pass whatever options.loop_gif says.
after_pass_again(looping) == "delay"

\* if options.loop_gif { loop { playback_loop()?; safe_sleep("10ms")?; } }
\* else { playback_loop()?; } then sink.stop().
after_pass(looping) == IF looping THEN "delay" ELSE "stop"

\* One entry of the history: what was done, in which pass, for which frame,
\* the clock after it and the ticks it took.
Event(ev, p, frame, at, dur) ==
    [ev |-> ev, pass |-> p, frame |-> frame, at |-> at, dur |-> dur]

\* load_audio_file(&sink, path): File::open and Decoder::new may fail; on
\* success the source is appended to the sink and plays from its start.
load_audio_file(tr, ok, p, at) ==
    Append(tr, Event(IF ok THEN "append" ELSE "load_err", p, 0, at, 0))

\* discover_and_sort_frames(base_dir): read_dir(base_dir) may fail.
discover(readable, l) ==
    IF ~readable THEN [ok |-> FALSE, frames |-> <<>>]
    ELSE discover_and_sort_frames(l)

\* play_animation returns after the guard was created: the guard is dropped.
Return(result) ==
    /\ play_pc' = IF result = "ok" THEN "finished" ELSE "failed"
    /\ play_result' = result
    /\ terminal' = terminal_guard_drop(terminal)

\* play_animation goes on.
Continue(next) ==
    /\ play_pc' = next
    /\ UNCHANGED <<play_result, terminal>>

\* A check that refuses the rate zero only.
fps_is_zero(f) == f = 0

\* if options.fps <= 0.0 { return Err(anyhow!("FPS must be positive")) }
fps_not_positive(f) == f <= 0

\* The fps check, then TerminalGuard::new().
PlayStart ==
    /\ play_pc = "start"
    /\ IF fps_not_positive(fps)
       THEN /\ play_pc' = "failed"
            /\ play_result' = "fps"
            /\ UNCHANGED terminal
       ELSE /\ play_pc' = "audio"
            /\ terminal' = terminal_guard_new(terminal)
            /\ UNCHANGED play_result
    /\ UNCHANGED <<convVars, disk, listing, ordered_frames, optVars, frame_contents,
                   frame_index, pass, clock, last_frame_time, trace>>

\* initialize_audio: open the output device and the sink, load the track.
InitAudio(device_ok, load_ok) ==
    /\ play_pc = "audio"
    /\ IF ~device_ok
       THEN /\ Return("audio")
            /\ UNCHANGED trace
       ELSE /\ Continue("scan")
            /\ trace' = IF audio # None
                        THEN load_audio_file(trace, load_ok, 0, clock)
                        ELSE trace
    /\ UNCHANGED <<convVars, disk, listing, ordered_frames, optVars, frame_contents,
                   frame_index, pass, clock, last_frame_time>>

\* discover_and_sort_frames(&options.frames_dir)?, then the is_empty check.
PlayScan(l) ==
    /\ play_pc = "scan"
    /\ LET found == discover(root_readable, l)
       IN /\ listing' = l
          /\ ordered_frames' = Some(found)
          /\ IF ~found.ok THEN Return("io")
             ELSE IF is_empty(found.frames) THEN Return("no_frames")
             ELSE Continue("load")
    /\ UNCHANGED <<convVars, disk, optVars, frame_contents, frame_index, pass,
                   clock, last_frame_time, trace>>

\* What read_dir may yield when play_animation scans.
PlayDirOrders ==
    IF play_pc # "scan" THEN {}
    ELSE IF root_readable THEN Listings(disk) ELSE {<<>>}

\* fs::read_to_string of every frame, collected with ?.
LoadFrames(ok) ==
    /\ play_pc = "load"
    /\ IF ok
       THEN /\ frame_contents' = Some(ordered_frames[1].frames)
            /\ Continue("pass")
       ELSE /\ Return("load")
            /\ UNCHANGED frame_contents
    /\ UNCHANGED <<convVars, disk, listing, ordered_frames, optVars, frame_index,
                   pass, clock, last_frame_time, trace>>

\* playback_loop up to its for loop: the audio restart, Instant::now().
StartPass(load_ok) ==
    /\ play_pc = "pass"
    /\ pass < MaxPasses
    /\ LET p == pass + 1
           stopped == IF audio_restart(sync)
                      THEN Append(trace, Event("stop", p, 0, clock, 0))
                      ELSE trace
           loaded == IF audio_restart(sync) /\ audio # None
                     THEN load_audio_file(stopped, load_ok, p, clock)
                     ELSE stopped
       IN /\ pass' = p
          /\ trace' = Append(loaded, Event("pass", p, 0, clock, 0))
    /\ last_frame_time' = clock
    /\ frame_index' = 1
    /\ Continue("frame")
    /\ UNCHANGED <<convVars, disk, listing, ordered_frames, optVars, frame_contents,
                   clock>>

\* A loop that notes a render error and tries the frame again.
RenderFrameRetried(ok, ticks) ==
    /\ play_pc = "frame"
    /\ frame_index <= Len(frame_contents[1])
    /\ IF ok
       THEN /\ clock' = clock + ticks
            /\ trace' = Append(trace, Event("render", pass, frame_index, clock', ticks))
            /\ Continue("sleep")
       ELSE /\ play_result' = "render"
            /\ UNCHANGED <<play_pc, terminal, clock, trace>>
    /\ UNCHANGED <<convVars, disk, listing, ordered_frames, optVars, frame_contents,
                   frame_index, pass, last_frame_time>>

\* render_frame(content)?
RenderFrame(ok, ticks) ==
    /\ play_pc = "frame"
    /\ frame_index <= Len(frame_contents[1])
    /\ IF ok
       THEN /\ clock' = clock + ticks
            /\ trace' = Append(trace, Event("render", pass, frame_index, clock', ticks))
            /\ Continue("sleep")
       ELSE /\ Return("render")
            /\ UNCHANGED <<clock, trace>>
    /\ UNCHANGED <<convVars, disk, listing, ordered_frames, optVars, frame_contents,
                   frame_index, pass, last_frame_time>>

\* elapsed, sleep_duration, safe_sleep(sleep_duration)?, Instant::now().
SleepFrame(ok) ==
    /\ play_pc = "sleep"
    /\ LET elapsed == clock - last_frame_time
           sleep_duration == saturating_sub(frame_duration(fps), elapsed)
       IN IF ok
          THEN /\ clock' = clock + sleep_duration
               /\ last_frame_time' = clock'
               /\ trace' = Append(trace, Event("sleep", pass, frame_index, clock',
                                               sleep_duration))
               /\ frame_index' = frame_index + 1
               /\ Continue("frame")
          ELSE /\ Return("sleep")
               /\ UNCHANGED <<clock, last_frame_time, trace, frame_index>>
    /\ UNCHANGED <<convVars, disk, listing, ordered_frames, optVars, frame_contents,
                   pass>>

\* A player that plays one pass and stops, looping or not.
EndPassOnce ==
    /\ play_pc = "frame"
    /\ frame_index > Len(frame_contents[1])
    /\ Continue("stop")
    /\ UNCHANGED <<convVars, disk, listing, ordered_frames, optVars, frame_contents,
                   frame_index, pass, clock, last_frame_time, trace>>

\* The for loop is through: playback_loop returns Ok(()).
EndPass ==
    /\ play_pc = "frame"
    /\ frame_index > Len(frame_contents[1])
    /\ Continue(after_pass(loop_gif))
    /\ UNCHANGED <<convVars, disk, listing, ordered_frames, optVars, frame_contents,
                   frame_index, pass, clock, last_frame_time, trace>>

\* A loop that starts the next pass at once.
LoopDelaySkipped(ok) ==
    /\ play_pc = "delay"
    /\ IF ok THEN Continue("pass") ELSE Return("sleep")
    /\ UNCHANGED <<convVars, disk, listing, ordered_frames, optVars, frame_contents,
                   frame_index, pass, clock, last_frame_time, trace>>

\* safe_sleep("10ms")? between two passes.
LoopDelay(ok) ==
    /\ play_pc = "delay"
    /\ IF ok
       THEN /\ clock' = clock + DelayTicks
            /\ trace' = Append(trace, Event("delay", pass, 0, clock', DelayTicks))
            /\ Continue("pass")
       ELSE /\ Return("sleep")
            /\ UNCHANGED <<clock, trace>>
    /\ UNCHANGED <<convVars, disk, listing, ordered_frames, optVars, frame_contents,
                   frame_index, pass, last_frame_time>>

\* sink.stop(); println!("Playback finished."); Ok(())
FinishPlayback ==
    /\ play_pc = "stop"
    /\ trace' = Append(trace, Event("stop", pass, 0, clock, 0))
    /\ Return("ok")
    /\ UNCHANGED <<convVars, disk, listing, ordered_frames, optVars, frame_contents,
                   frame_index, pass, clock, last_frame_time>>

\* The process receives an interrupt signal. play_animation installs no
\* handler, so the process ends at once and no destructor runs.
Interrupt ==
    /\ play_pc \in {"start", "audio", "scan", "load", "pass", "frame", "sleep",
                    "delay", "stop"}
    /\ play_pc' = "killed"
    /\ UNCHANGED <<convVars, disk, listing, ordered_frames, playerVars>>

----------------------------------------------------------------------------
(* play_animation of src/src/player.rs, the older player: no guard, no     *)
(* looping, and each frame file is read when its turn comes.               *)

\* play_animation returns an error with ?, the terminal left as it is.
PlayerFail(result) ==
    /\ play_pc' = "failed"
    /\ play_result' = result
    /\ UNCHANGED terminal

\* if options.fps <= 0.0 { return Err(..) }
PlayerStart ==
    /\ play_pc = "start"
    /\ IF fps_not_positive(fps) THEN PlayerFail("fps") ELSE Continue("scan")
    /\ UNCHANGED <<convVars, disk, listing, ordered_frames, optVars, frame_contents,
                   frame_index, pass, clock, last_frame_time, trace>>

\* discover_and_sort_frames(&options.frames_dir)?, then the is_empty check.
PlayerScan(l) ==
    /\ play_pc = "scan"
    /\ LET found == discover(root_readable, l)
       IN /\ listing' = l
          /\ ordered_frames' = Some(found)
          /\ IF ~found.ok THEN PlayerFail("io")
             ELSE IF is_empty(found.frames) THEN PlayerFail("no_frames")
             ELSE Continue("audio")
    /\ UNCHANGED <<convVars, disk, optVars, frame_contents, frame_index, pass,
                   clock, last_frame_time, trace>>

\* How the audio set-up may go: no output device or sink, the audio file
\* cannot be opened, the file is missing or cannot be decoded (a warning),
\* or the track is appended to the sink.
PlayerAudioOutcomes == { "device_fail", "open_fail", "silent", "ok" }

\* OutputStream::try_default()?, Sink::try_new()?, then the audio file.
PlayerAudio(outcome) ==
    /\ play_pc = "audio"
    /\ audio = None => outcome \in {"device_fail", "ok"}
    /\ IF outcome \in {"device_fail", "open_fail"}
       THEN /\ PlayerFail("audio")
            /\ UNCHANGED trace
       ELSE /\ Continue("terminal")
            /\ trace' = IF audio # None /\ outcome = "ok"
                        THEN Append(trace, Event("append", 0, 0, clock, 0))
                        ELSE trace
    /\ UNCHANGED <<convVars, disk, listing, ordered_frames, optVars, frame_contents,
                   frame_index, pass, clock, last_frame_time>>

\* How far the terminal set-up gets: EnterAlternateScreen fails, or
\* cursor::Hide or flush fails after it, or all three succeed.
PlayerTerminalOutcomes == { "enter_fail", "hide_fail", "ok" }

\* stdout.execute(EnterAlternateScreen)?; stdout.execute(Hide)?; flush()?
PlayerTerminal(outcome) ==
    /\ play_pc = "terminal"
    /\ IF outcome = "enter_fail"
       THEN /\ PlayerFail("terminal")
            /\ UNCHANGED <<frame_index, pass>>
       ELSE /\ terminal' = "alt"
            /\ IF outcome = "hide_fail"
               THEN /\ play_pc' = "failed"
                    /\ play_result' = "terminal"
                    /\ UNCHANGED <<frame_index, pass>>
               ELSE /\ play_pc' = "frame"
                    /\ frame_index' = 1
                    /\ pass' = 1
                    /\ UNCHANGED play_result
    /\ UNCHANGED <<convVars, disk, listing, ordered_frames, optVars, frame_contents,
                   clock, last_frame_time, trace>>

\* One iteration of the for loop: start_time, fs::read_to_string of this
\* frame (on Err: result = Err, break), clear and print with the errors
\* ignored, thread::sleep(frame_duration.saturating_sub(elapsed)).
PlayerFrame(read_ok, ticks) ==
    /\ play_pc = "frame"
    /\ frame_index <= Len(ordered_frames[1].frames)
    /\ IF read_ok
       THEN LET shown == clock + ticks
                sleep_duration == saturating_sub(frame_duration(fps), ticks)
            IN /\ clock' = shown + sleep_duration
               /\ last_frame_time' = clock
               /\ trace' = trace \o
                    << Event("render", pass, frame_index, shown, ticks),
                       Event("sleep", pass, frame_index, clock', sleep_duration) >>
               /\ frame_index' = frame_index + 1
               /\ Continue("frame")
       ELSE /\ play_pc' = "restore"
            /\ play_result' = "load"
            /\ UNCHANGED <<terminal, clock, last_frame_time, trace, frame_index>>
    /\ UNCHANGED <<convVars, disk, listing, ordered_frames, optVars, frame_contents,
                   pass>>

\* The for loop is through.
PlayerLoopEnd ==
    /\ play_pc = "frame"
    /\ frame_index > Len(ordered_frames[1].frames)
    /\ Continue("restore")
    /\ UNCHANGED <<convVars, disk, listing, ordered_frames, optVars, frame_contents,
                   frame_index, pass, clock, last_frame_time, trace>>

\* cursor::Show, LeaveAlternateScreen, flush; sink.stop(); the result of
\* the loop is returned.
PlayerFinish ==
    /\ play_pc = "restore"
    /\ terminal' = "normal"
    /\ trace' = Append(trace, Event("stop", pass, 0, clock, 0))
    /\ play_pc' = IF play_result = "none" THEN "finished" ELSE "failed"
    /\ play_result' = IF play_result = "none" THEN "ok" ELSE play_result
    /\ UNCHANGED <<convVars, disk, listing, ordered_frames, optVars, frame_contents,
                   frame_index, pass, clock, last_frame_time>>

----------------------------------------------------------------------------
(* What the players are started on.                                        *)

\* The frames directories the player is started on: an empty one, one with
\* no frame in it, two with two frames, one with a second directory that
\* cannot be read.
PlayStores ==
    { {},
      {FileEntry(txt(<<"b">>))},
      {DirEntry(<<"0">>, {Kid(txt(<<"1">>), "file"), Kid(txt(<<"2">>), "file")})},
      {DirEntry(<<"1">>, {Kid(txt(<<"1">>), "file")}), FileEntry(txt(<<"1">>))},
      {[name |-> <<"2">>, kind |-> "dir", readable |-> FALSE, kids |-> {}]} }

\* Playback rates: two that are not positive, and two that are.
PlayFps == {-1, 0, 1, 2}

\* play_animation is called; --sync requires --gif.
InitPlay ==
    /\ pc = "idle"
    /\ program = "convert"
    /\ frame_time_base = <<1, 1>>
    /\ video_fps = 1
    /\ target_fps = 1
    /\ min_pts_difference = 1
    /\ video_frame_count = 0
    /\ total_output_frames = 0
    /\ last_processed_time_pts = -1
    /\ last_processed_second = None
    /\ current_second_dir = None
    /\ frame_count_in_second = 0
    /\ temp_frame_exists = FALSE
    /\ lastFrame = NoFrame
    /\ keptLog = <<>>
    /\ writeLog = <<>>
    /\ disk \in PlayStores
    /\ root_readable \in BOOLEAN
    /\ ~root_readable => disk = {}
    /\ fps \in PlayFps
    /\ loop_gif \in BOOLEAN
    /\ sync \in BOOLEAN
    /\ sync => loop_gif
    /\ audio \in {None, Some(<<"a">>)}
    /\ play_pc = "start"
    /\ listing = <<>>
    /\ ordered_frames = None
    /\ terminal = "normal"
    /\ frame_contents = None
    /\ frame_index = 0
    /\ pass = 0
    /\ clock = 0
    /\ last_frame_time = 0
    /\ trace = <<>>
    /\ play_result = "none"

----------------------------------------------------------------------------
(* Specifications.                                                         *)

\* A conversion run into a fresh output directory, then scans of its store.
Next ==
    \/ SetupDone
    \/ SetupFails
    \/ \E pts \in PtsValues, outcome \in FrameOutcomes : ReceiveFrame(pts, outcome)
    \/ SendPacketFails
    \/ SendEof
    \/ DrainFrame
    \/ FinishConversion
    \/ \E l \in ReadDirOrders : ScanFrames(l)

Spec == Init /\ [][Next]_vars

\* The same run by the converter of main.rs.
InitMain == InitRun("main", FreshDir, {<<3, 2>>, <<1, 2>>}, TimeBases)

SpecMain == InitMain /\ [][Next]_vars

\* Output directories an earlier run wrote to: frames of second 0, frames of
\* seconds 0 and 1 with a scratch file left behind, and a file named 1 where
\* the directory of second 1 would go.
UsedDirs ==
    { [disk |-> {DirEntry(<<"0">>, {Kid(txt(<<"1">>), "file")})}, temp |-> FALSE],
      [disk |-> {DirEntry(<<"0">>, {Kid(txt(<<"1">>), "file")}),
                 DirEntry(<<"1">>, {Kid(txt(<<"1">>), "file"),
                                    Kid(txt(<<"2">>), "file")})},
       temp |-> TRUE],
      [disk |-> {FileEntry(<<"1">>)}, temp |-> FALSE] }

\* run_conversion of convert.rs into an output directory used before.
InitRerun == \E out \in UsedDirs : InitRun("convert", out, {<<3, 2>>}, TimeBases)

SpecRerun == InitRerun /\ [][Next]_vars

\* Runs of either converter on a stream whose time base may have the
\* denominator zero.
ZeroDenBases == { <<1, 0>>, <<1, 1>> }

InitZeroDen ==
    \E prog \in {"convert", "main"} :
        InitRun(prog, FreshDir, {<<3, 2>>}, ZeroDenBases)

SpecZeroDen == InitZeroDen /\ [][Next]_vars

\* Time bases of a source of 2 frames a second whose frames are one tick
\* and two ticks apart.
SteadyBases == { <<1, 2>>, <<1, 4>> }

\* The ticks between two frames of a constant-rate stream: 1 / (rate * tb).
ticks_per_frame(tb, rate) == tb[2] \div (tb[1] * rate)

\* Either converter on a constant-rate source, sampled at half its rate.
InitSteady ==
    \E prog \in {"convert", "main"} :
        InitRun(prog, FreshDir, {<<2, 1>>}, SteadyBases)

\* The timestamp of the next frame of a constant-rate source: frame i has
\* the timestamp i * ticks_per_frame.
SteadyPts ==
    Some(video_frame_count * ticks_per_frame(frame_time_base, video_fps))

NextSteady ==
    \/ SetupDone
    \/ SetupFails
    \/ \E outcome \in FrameOutcomes : ReceiveFrame(SteadyPts, outcome)
    \/ SendPacketFails
    \/ SendEof
    \/ DrainFrame
    \/ FinishConversion
    \/ \E l \in ReadDirOrders : ScanFrames(l)

SpecSteady == InitSteady /\ [][NextSteady]_vars

\* Scans of a store of any content.
NextStore == \E l \in ReadDirOrders : ScanFrames(l)

SpecStore == InitStore /\ [][NextStore]_vars

\* The steps of play_animation.
PlayStep ==
    \/ PlayStart
    \/ \E device_ok, load_ok \in BOOLEAN : InitAudio(device_ok, load_ok)
    \/ \E l \in PlayDirOrders : PlayScan(l)
    \/ \E ok \in BOOLEAN : LoadFrames(ok)
    \/ \E load_ok \in BOOLEAN : StartPass(load_ok)
    \/ \E ok \in BOOLEAN, ticks \in RenderTimes : RenderFrame(ok, ticks)
    \/ \E ok \in BOOLEAN : SleepFrame(ok)
    \/ EndPass
    \/ \E ok \in BOOLEAN : LoopDelay(ok)
    \/ FinishPlayback

\* A run of play_animation that an interrupt signal may end.
NextPlay == PlayStep \/ Interrupt

SpecPlay == InitPlay /\ [][NextPlay]_vars

\* The steps of play_animation once the frames are loaded.
PlaybackStep ==
    \/ \E load_ok \in BOOLEAN : StartPass(load_ok)
    \/ \E ok \in BOOLEAN, ticks \in RenderTimes : RenderFrame(ok, ticks)
    \/ \E ok \in BOOLEAN : SleepFrame(ok)
    \/ EndPass
    \/ \E ok \in BOOLEAN : LoopDelay(ok)
    \/ FinishPlayback

\* A run of play_animation that no signal ends. Playback is straight
\* sequential code on one thread: a step that can be taken is taken.
SpecPlayFair == InitPlay /\ [][PlayStep]_vars /\ WF_vars(PlaybackStep)

\* play_animation of player.rs is called; it has no --gif and no --sync.
InitPlayer == InitPlay /\ ~loop_gif /\ ~sync

\* The steps of play_animation of player.rs.
NextPlayer ==
    \/ PlayerStart
    \/ \E l \in PlayDirOrders : PlayerScan(l)
    \/ \E outcome \in PlayerAudioOutcomes : PlayerAudio(outcome)
    \/ \E outcome \in PlayerTerminalOutcomes : PlayerTerminal(outcome)
    \/ \E read_ok \in BOOLEAN, ticks \in RenderTimes : PlayerFrame(read_ok, ticks)
    \/ PlayerLoopEnd
    \/ PlayerFinish

SpecPlayer == InitPlayer /\ [][NextPlayer]_vars

----------------------------------------------------------------------------
(* Properties of the frame sampler and the store writer (Spec).            *)

Max(a, b) == IF a >= b THEN a ELSE b

\* A receive_frame step of the packet loop.
IsReceive == pc = "packets" /\ video_frame_count' = video_frame_count + 1

\* C1: a decoded frame that carries a timestamp is kept iff its pts >= 0 and
\* (no frame has been kept before, or pts minus the pts of the most recently
\* kept frame is at least the threshold).
C1_KeepRule ==
    lastFrame.seen /\ lastFrame.pts # None =>
        (lastFrame.kept <=>
            /\ lastFrame.pts[1] >= 0
            /\ \/ lastFrame.prev_kept = <<>>
               \/ lastFrame.pts[1] - Last(lastFrame.prev_kept) >= min_pts_difference)

\* A frame kept after an earlier kept frame, exactly threshold ticks later.
C1_Witness ==
    /\ lastFrame.seen /\ lastFrame.kept /\ lastFrame.pts # None
    /\ lastFrame.prev_kept # <<>>
    /\ min_pts_difference >= 1
    /\ lastFrame.pts[1] - Last(lastFrame.prev_kept) = min_pts_difference

\* C2: a decoded frame whose timestamp is negative or absent is never kept:
\* the step changes neither the sample state nor the store, and adds one to
\* the scanned count.
C2_UnstampedNeverKept ==
    [][ (IsReceive /\ (lastFrame'.pts = None \/ lastFrame'.pts[1] < 0)) =>
            /\ ~lastFrame'.kept
            /\ keptLog' = keptLog
            /\ last_processed_second' = last_processed_second
            /\ frame_count_in_second' = frame_count_in_second
            /\ disk' = disk
            /\ writeLog' = writeLog
            /\ video_frame_count' = video_frame_count + 1 ]_vars

\* C3: the threshold equals max(1, round(source rate / target rate)).
C3_ThresholdClamped ==
    min_pts_difference = Max(1, round_div(video_fps, target_fps))

\* C4: a frame with pts >= 0 that is written is written in the directory
\* named floor(pts * numerator / denominator), which exists.
C4_BucketIsFloorOfSeconds ==
    lastFrame.seen /\ lastFrame.pts # None /\ lastFrame.wrote # None =>
        LET bucket == (lastFrame.pts[1] * frame_time_base[1]) \div frame_time_base[2]
        IN /\ lastFrame.pts[1] >= 0
           /\ lastFrame.wrote[1][1] = to_string(bucket)
           /\ \E e \in disk :
                /\ e.name = to_string(bucket) /\ e.kind = "dir"
                /\ Kid(lastFrame.wrote[1][2], "file") \in e.kids

\* A written frame whose timestamp is not a whole number of seconds.
C4_Witness ==
    /\ lastFrame.seen /\ lastFrame.pts # None /\ lastFrame.wrote # None
    /\ (lastFrame.pts[1] * frame_time_base[1]) % frame_time_base[2] # 0

\* The frame numbers of the files of a directory.
frame_numbers(e) == { parse_u64(file_stem(k.name)).val : k \in e.kids }

\* C5: after a run the frame numbers of the files of each bucket directory
\* are 1..k.
C5_ContiguousNumbers ==
    pc = "done" =>
        \A e \in disk : frame_numbers(e) = 1..Cardinality(e.kids)

\* C6: scanning the store of a finished run returns the written frame files,
\* each once, in write order, whatever order read_dir yields.
C6_RoundTrip ==
    pc = "done" /\ ordered_frames # None =>
        /\ ordered_frames[1].ok
        /\ ordered_frames[1].frames = writeLog

\* C17: when a conversion run has ended, by success or by a failure after
\* the scratch file may have been created, _temp_frame.png does not exist.
C17_ScratchRemoved ==
    pc \in {"done", "failed"} => ~temp_frame_exists

\* C18: a failure to create a bucket directory ends the run: the frame that
\* needed the directory writes nothing, and afterwards no frame is scanned,
\* kept or written.
C18_DirFailureAborts ==
    [][ /\ (IsReceive /\ lastFrame'.outcome = "dir_fail") =>
               /\ pc' = "failed"
               /\ disk' = disk
               /\ writeLog' = writeLog
               /\ total_output_frames' = total_output_frames
        /\ lastFrame.outcome = "dir_fail" =>
               UNCHANGED <<pc, video_frame_count, keptLog, writeLog, disk,
                           total_output_frames, lastFrame>> ]_vars

\* A run ended by a directory failure after it had written a frame and
\* before the frame bound was reached.
C18_Witness ==
    /\ pc = "failed" /\ lastFrame.outcome = "dir_fail"
    /\ writeLog # <<>>
    /\ video_frame_count < MaxFrames

\* Whether the file of path <<dir, file>> is in store d.
in_store(d, path) ==
    \E e \in d : e.name = path[1] /\ e.kind = "dir" /\ Kid(path[2], "file") \in e.kids

\* C19: a failure of scaling, of the pixel buffer, of the scratch save, of
\* the text conversion or of creating or writing the output file does not
\* end the run and removes nothing from the store; the next frame still goes
\* through the keep decision and, when kept and successful, is written.
C19_FrameFailureSkipsOneFrame ==
    [][ IsReceive =>
          /\ lastFrame'.outcome = "frame_fail" =>
                /\ pc' = "packets"
                /\ \A e \in disk : \E f \in disk' :
                      f.name = e.name /\ e.kids \subseteq f.kids
          /\ (lastFrame.outcome = "frame_fail" /\ lastFrame'.pts # None) =>
                /\ lastFrame'.kept =
                     decide(lastFrame'.pts[1], last_processed_time_pts,
                            min_pts_difference)
                /\ lastFrame'.outcome = "ok" =>
                     /\ lastFrame'.wrote # None
                     /\ in_store(disk', lastFrame'.wrote[1]) ]_vars

\* A frame written after an earlier kept frame was dropped by a failure.
C19_Witness ==
    /\ lastFrame.outcome = "ok" /\ lastFrame.wrote # None
    /\ Len(keptLog) > Len(writeLog)
    /\ Len(writeLog) >= 1

\* The frame number of a file name.
number_of(name) == parse_u64(file_stem(name)).val

\* C20: a frame written into a bucket directory that already exists gets a
\* number greater than the number of every frame file already in it, so no
\* existing frame file is overwritten.
C20_CounterNotReset ==
    [][ (IsReceive /\ lastFrame'.pts # None /\ lastFrame'.wrote # None) =>
          \A e \in disk :
            (e.name = lastFrame'.wrote[1][1] /\ e.kind = "dir") =>
               \A k \in e.kids :
                  number_of(k.name) < number_of(lastFrame'.wrote[1][2]) ]_vars

\* C21: on a stream whose time base has the denominator zero the run
\* fails before a frame is counted or sampled, a bucket directory is created
\* or a frame file is written.
C21_ZeroDenominatorAborts ==
    frame_time_base[2] = 0 =>
        /\ video_frame_count = 0
        /\ keptLog = <<>>
        /\ writeLog = <<>>
        /\ disk = {}

\* What the sampler and the writer carry from one frame to the next.
samplerVars ==
    <<last_processed_time_pts, last_processed_second, current_second_dir,
      frame_count_in_second, total_output_frames, keptLog, writeLog>>

\* C22: a frame the decoder returns after end of input adds one to the
\* count of scanned frames and changes neither the last kept timestamp, the
\* bucket, the in-bucket counter, the kept and written frames nor the store.
C22_DrainFramesOnlyCounted ==
    [][ (pc = "drain" /\ video_frame_count' # video_frame_count) =>
          /\ video_frame_count' = video_frame_count + 1
          /\ UNCHANGED <<samplerVars, disk>> ]_vars

\* Frames were drained after a run that kept and wrote a frame.
C22_Witness ==
    /\ pc \in {"drain", "done"}
    /\ video_frame_count > lastFrame.count
    /\ keptLog # <<>>
    /\ writeLog # <<>>

\* C25: a run whose target frame rate is zero or negative fails and neither
\* samples nor writes a frame.
C25_BadTargetFpsAborts ==
    target_fps <= 0 =>
        /\ keptLog = <<>>
        /\ writeLog = <<>>
        /\ disk = {}

\* C26: within one run no <<bucket, frame file>> path is written twice.
C26_PathsWrittenOnce ==
    \A i, j \in 1..Len(writeLog) : writeLog[i] = writeLog[j] => i = j

\* C28: on a constant-rate source sampled at a target rate not above the
\* source rate, two consecutive kept frames are at least
\* round(source rate / target rate) source frames apart, whatever the number
\* of ticks between two frames.
C28_KeptFramesApart ==
    \A i \in 1..(Len(keptLog) - 1) :
        keptLog[i + 1] - keptLog[i] >=
            round_div(video_fps, target_fps)
                * ticks_per_frame(frame_time_base, video_fps)

\* The files in the directories of a store.
stored_files(d) == UNION { { <<e.name, k.name>> : k \in e.kids } : e \in d }

\* C30: at every point of a run emitted <= kept <= scanned, and when the
\* run is through the count of emitted frames is the number of frame files
\* in the store.
C30_EmittedCountsStoredFiles ==
    /\ total_output_frames <= Len(keptLog)
    /\ Len(keptLog) <= video_frame_count
    /\ pc = "done" => total_output_frames = Cardinality(stored_files(disk))

\* C31: a decoded frame that is not kept, its timestamp being negative or
\* less than the threshold after the last kept one, adds one to the count of
\* scanned frames and changes neither the last kept timestamp, the bucket,
\* the in-bucket counter, the emitted count nor the store.
C31_UnkeptFrameOnlyCounted ==
    [][ ( /\ IsReceive
          /\ LET current_pts == unwrap_or(lastFrame'.pts, 0)
             IN \/ current_pts < 0
                \/ /\ last_processed_time_pts # -1
                   /\ current_pts - last_processed_time_pts < min_pts_difference ) =>
          /\ video_frame_count' = video_frame_count + 1
          /\ UNCHANGED <<samplerVars, disk>> ]_vars

\* A frame too close to the last kept one was dropped after a frame had
\* been written.
C31_Witness ==
    /\ lastFrame.seen /\ ~lastFrame.kept
    /\ lastFrame.pts # None
    /\ lastFrame.pts[1] >= 0
    /\ writeLog # <<>>
    /\ video_frame_count > Len(keptLog)

\* C32: a kept frame that fails on its way to the store (scaling, pixel
\* buffer, scratch save, text conversion, creating or writing the file)
\* still becomes the last kept frame: its timestamp is remembered, and the
\* next frame is kept iff it is at least the threshold after that timestamp.
C32_FailedFrameStillSampled ==
    [][ IsReceive =>
          /\ lastFrame'.outcome = "frame_fail" =>
                last_processed_time_pts' = unwrap_or(lastFrame'.pts, 0)
          /\ (lastFrame.outcome = "frame_fail" /\ lastFrame'.pts # None) =>
                /\ last_processed_time_pts = unwrap_or(lastFrame.pts, 0)
                /\ lastFrame'.kept <=>
                     /\ lastFrame'.pts[1] >= 0
                     /\ lastFrame'.pts[1] - unwrap_or(lastFrame.pts, 0)
                          >= min_pts_difference ]_vars

\* A frame was dropped for coming too soon after a kept frame that never
\* reached the store.
C32_Witness ==
    /\ lastFrame.seen /\ ~lastFrame.kept
    /\ lastFrame.pts # None
    /\ lastFrame.pts[1] >= 0
    /\ Len(keptLog) = 1
    /\ writeLog = <<>>
    /\ stored_files(disk) = {}

----------------------------------------------------------------------------
(* Properties of the scan (SpecStore).                                     *)

\* The sort key of a path of the result.
bucket_of(path) == IF Len(path) = 1 THEN 0 ELSE parse_u64(path[1]).val
frame_of(path) == parse_u64(file_stem(path[Len(path)])).val

\* C7: the result is sorted ascending by (bucket number, frame number).
C7_SortedByKey ==
    ordered_frames # None /\ ordered_frames[1].ok =>
        LET fr == ordered_frames[1].frames
        IN \A i \in 1..(Len(fr) - 1) :
             \/ bucket_of(fr[i]) < bucket_of(fr[i + 1])
             \/ /\ bucket_of(fr[i]) = bucket_of(fr[i + 1])
                /\ frame_of(fr[i]) <= frame_of(fr[i + 1])

\* C8: every order in which read_dir can yield the entries of the store
\* gives the same result.
C8_OrderIndependent ==
    ordered_frames # None =>
        \A l \in Listings(disk) : discover_and_sort_frames(l) = ordered_frames[1]

\* A path of a loose root file or of a file of the directory named 0.
in_bucket_0(path) == Len(path) = 1 \/ path[1] = <<"0">>

\* C9: the loose root frames and the frames of directory 0 appear in the
\* result in ascending order of frame number.
C9_MergeRule ==
    ordered_frames # None /\ ordered_frames[1].ok =>
        LET merged == SelectSeq(ordered_frames[1].frames, in_bucket_0)
        IN \A i \in 1..(Len(merged) - 1) : frame_of(merged[i]) <= frame_of(merged[i + 1])

\* A name that is a base-10 non-negative integer (a leading '+' allowed).
is_number(s) ==
    LET d == IF s # <<>> /\ Head(s) = "+" THEN Tail(s) ELSE s
    IN d # <<>> /\ \A i \in 1..Len(d) : d[i] \in { Digits[j] : j \in 1..10 }

has_txt_suffix(name) ==
    /\ Len(name) > 4
    /\ SubSeq(name, Len(name) - 3, Len(name)) = <<".", "t", "x", "t">>

is_frame_file(e) ==
    /\ e.kind = "file"
    /\ has_txt_suffix(e.name)
    /\ is_number(SubSeq(e.name, 1, Len(e.name) - 4))

\* The listing without the entries that do not conform.
conforming_only(l) ==
    LET roots == SelectSeq(l, LAMBDA e : \/ e.kind = "dir" /\ is_number(e.name)
                                         \/ is_frame_file(e))
    IN [i \in 1..Len(roots) |->
          [roots[i] EXCEPT !.kids = SelectSeq(@, is_frame_file)]]

\* C10: entries that do not conform neither fail the scan nor change its
\* result: it equals the result of the scan without them.
C10_JunkIgnored ==
    ordered_frames # None =>
        ordered_frames[1] = discover_and_sort_frames(conforming_only(listing))

\* A scan that returned frames from a store that also holds other entries,
\* at the root and inside a second directory.
C10_Witness ==
    /\ ordered_frames # None /\ ordered_frames[1].ok
    /\ ordered_frames[1].frames # <<>>
    /\ Len(conforming_only(listing)) < Len(listing)
    /\ \E i \in 1..Len(listing) :
         /\ listing[i].kind = "dir" /\ is_number(listing[i].name)
         /\ SelectSeq(listing[i].kids, is_frame_file) # listing[i].kids

----------------------------------------------------------------------------
(* Properties of the player (SpecPlay, SpecPlayFair).                      *)

\* The render events of a history, in order.
renders(tr) == SelectSeq(tr, LAMBDA e : e.ev = "render")

\* C11: when the frames directory cannot be read the scan fails and
\* play_animation returns the scan's I/O error; when it can be read and holds
\* no conforming entry the scan returns the empty sequence and
\* play_animation returns the error "no valid frame files found", having
\* rendered no frame.
C11_NoFramesIsAnError ==
    ordered_frames # None =>
        /\ ~root_readable =>
              /\ ~ordered_frames[1].ok
              /\ play_pc = "failed" /\ play_result = "io"
        /\ (root_readable /\ conforming_only(listing) = <<>>) =>
              /\ ordered_frames[1] = [ok |-> TRUE, frames |-> <<>>]
              /\ play_pc = "failed" /\ play_result = "no_frames"
              /\ renders(trace) = <<>>

\* A readable frames directory that holds an entry, but no conforming one.
C11_Witness ==
    /\ play_result = "no_frames"
    /\ root_readable /\ listing # <<>>
    /\ conforming_only(listing) = <<>>

\* The events of pass k of a history.
pass_events(tr, k, ev) == SelectSeq(tr, LAMBDA e : e.ev = ev /\ e.pass = k)

\* Sum over render events of max(frame duration, render time).
RECURSIVE frame_slots(_, _)
frame_slots(rs, fd) ==
    IF rs = <<>> THEN 0 ELSE Max(fd, Head(rs).dur) + frame_slots(Tail(rs), fd)

\* C12: after each rendered frame the player sleeps max(0, 1/fps - elapsed),
\* elapsed counted from the end of the previous frame's sleep (from the start
\* of the pass for the first frame), so the frame lasts max(1/fps, render
\* time); a pass through N frames lasts the sum of these, at least N/fps.
C12_SleepFillsFrame ==
    /\ \A i \in DOMAIN trace :
         trace[i].ev = "sleep" =>
            LET start == trace[i - 2].at
                elapsed == trace[i - 1].at - start
            IN /\ trace[i - 1].ev = "render"
               /\ trace[i - 1].frame = trace[i].frame
               /\ trace[i - 1].dur = elapsed
               /\ trace[i - 2].ev \in {"pass", "sleep"}
               /\ trace[i].dur = Max(0, frame_duration(fps) - elapsed)
               /\ trace[i].at - start = Max(frame_duration(fps), elapsed)
    /\ \A k \in 1..pass :
         LET n == Len(frame_contents[1])
             slept == pass_events(trace, k, "sleep")
             length == Last(slept).at - pass_events(trace, k, "pass")[1].at
         IN Len(slept) = n =>
               /\ length = frame_slots(pass_events(trace, k, "render"),
                                       frame_duration(fps))
               /\ length >= n * frame_duration(fps)

\* A pass through two frames, one rendered in less than a frame lasts and
\* one in more.
C12_Witness ==
    /\ pass >= 1
    /\ Len(pass_events(trace, 1, "sleep")) = 2
    /\ \E e \in { trace[i] : i \in DOMAIN trace } : e.ev = "sleep" /\ e.pass = 1 /\ e.dur = 0
    /\ \E e \in { trace[i] : i \in DOMAIN trace } : e.ev = "sleep" /\ e.pass = 1 /\ e.dur > 0

\* The names of the events of pass k that precede position j.
before_render(tr, k, j) ==
    LET es == SelectSeq(SubSeq(tr, 1, j - 1), LAMBDA e : e.pass = k)
    IN [i \in 1..Len(es) |-> es[i].ev]

C14_NonLoopingPlaybackEnds ==
    /\ [](play_pc = "finished" =>
            /\ [i \in 1..Len(renders(trace)) |-> renders(trace)[i].frame]
                 = [i \in 1..Len(frame_contents[1]) |-> i]
            /\ Last(trace).ev = "stop"
            /\ Len(pass_events(trace, 1, "stop")) = 1
            /\ play_result = "ok")
    /\ []((~loop_gif /\ frame_contents # None /\ play_pc = "failed") =>
            play_result \in {"render", "sleep"})
    /\ ((~loop_gif /\ frame_contents # None) ~> (play_pc \in {"finished", "failed"}))

\* A finished playback of two frames.
C14_Witness ==
    /\ play_pc = "finished" /\ ~loop_gif
    /\ Len(frame_contents[1]) = 2
    /\ Len(renders(trace)) = 2

C16_InterruptRestoresTerminal ==
    play_pc = "killed" => terminal = "normal"

\* C23: when reading a frame file fails, play_animation returns the error
\* having rendered no frame.
C23_LoadIsFailFast ==
    play_result = "load" => renders(trace) = <<>>

\* C24: play_animation called with fps <= 0 returns the error "FPS must be
\* positive" and does nothing else: the terminal stays in normal mode, the
\* audio set-up and the scan are not reached, nothing is loaded or rendered.
C24_BadFpsAbortsFirst ==
    fps <= 0 =>
        /\ play_pc \in {"start", "failed", "killed"}
        /\ play_pc = "failed" => play_result = "fps"
        /\ terminal = "normal"
        /\ ordered_frames = None
        /\ frame_contents = None
        /\ trace = <<>>

\* play_animation has returned the fps error, for a negative rate.
C24_Witness ==
    fps < 0 /\ play_pc = "failed" /\ play_result = "fps"

\* The audio events at the start of a pass: stop, then the reload if there
\* is a track.
restart_events == IF sync THEN (IF audio # None THEN 2 ELSE 1) ELSE 0

\* C27 as stated: with sync set, the audio is stopped and restarted after the
\* last frame of a pass and before the delay between the passes.
C27_RestartBeforeDelay ==
    \A i \in 1..Len(trace) :
        (trace[i].ev = "delay" /\ sync) =>
            /\ i > 1
            /\ trace[i - 1].ev \in {"stop", "append", "load_err"}

\* C27, amended: at a loop boundary the last frame of the pass is rendered
\* and slept on, then comes the delay between the passes, then (with sync
\* set) the audio is stopped and restarted, then frame 1 of the next pass
\* is rendered; and every pass after the first starts this way.
C27_DelayBeforeRestart ==
    /\ \A i \in 1..Len(trace) :
          trace[i].ev = "delay" =>
            LET k == trace[i].pass
                r == restart_events
            IN /\ i > 1
               /\ trace[i - 1].ev = "sleep"
               /\ trace[i - 1].pass = k
               /\ trace[i - 1].frame = Len(frame_contents[1])
               /\ Len(trace) > i =>
                    /\ Len(trace) >= i + r + 1
                    /\ sync => trace[i + 1].ev = "stop" /\ trace[i + 1].pass = k + 1
                    /\ (sync /\ audio # None) =>
                          trace[i + 2].ev \in {"append", "load_err"}
                    /\ trace[i + r + 1].ev = "pass"
                    /\ trace[i + r + 1].pass = k + 1
                    /\ Len(trace) > i + r + 1 =>
                          /\ trace[i + r + 2].ev = "render"
                          /\ trace[i + r + 2].pass = k + 1
                          /\ trace[i + r + 2].frame = 1
    /\ \A j \in 1..Len(trace) :
          (trace[j].ev = "pass" /\ trace[j].pass >= 2) =>
            /\ j - restart_events - 1 >= 1
            /\ trace[j - restart_events - 1].ev = "delay"
            /\ trace[j - restart_events - 1].pass = trace[j].pass - 1

\* A looping run with sync and a track has rendered frame 1 of its second
\* pass.
C27_Witness ==
    /\ sync
    /\ audio # None
    /\ \E i \in 1..Len(trace) :
          /\ trace[i].ev = "delay"
          /\ Len(trace) >= i + 4
          /\ trace[i + 4].ev = "render"

\* C29: once rendering or sleeping has failed, play_animation has returned
\* the error: the failing step renders nothing, and afterwards no frame is
\* rendered, no pass is started and nothing is tried again.
C29_PassFailureEndsPlayback ==
    [][ play_result' \in {"render", "sleep"} =>
          /\ play_pc' = "failed"
          /\ trace' = trace
          /\ pass' = pass
          /\ frame_index' = frame_index ]_vars

\* A looping run failed in its second pass.
C29_Witness ==
    /\ loop_gif
    /\ pass >= 2
    /\ play_pc = "failed"
    /\ play_result \in {"render", "sleep"}

\* The state of the playback state machine a position of play_animation
\* belongs to.
phase(p) ==
    CASE p \in {"idle", "start"} -> "Idle"
      [] p \in {"audio", "scan", "load"} -> "Loading"
      [] p \in {"pass", "frame", "sleep"} -> "Playing"
      [] p = "delay" -> "Looping"
      [] p \in {"stop", "finished"} -> "Finished"
      [] p = "failed" -> "Failed"
      [] p = "killed" -> "Interrupted"

\* The transitions of the state machine, for a run that loops or not.
phase_steps(looping) ==
    { <<"Idle", "Loading">>, <<"Loading", "Playing">>, <<"Looping", "Playing">>,
      <<"Idle", "Failed">>, <<"Loading", "Failed">>, <<"Playing", "Failed">>,
      <<"Looping", "Failed">>,
      <<"Idle", "Interrupted">>, <<"Loading", "Interrupted">>,
      <<"Playing", "Interrupted">>, <<"Looping", "Interrupted">>,
      <<"Finished", "Interrupted">> }
    \cup (IF looping THEN { <<"Playing", "Looping">> }
                     ELSE { <<"Playing", "Finished">> })

\* C33: playback goes Idle -> Loading -> Playing -> Finished, or with
\* looping Playing -> Looping -> Playing, and leaves this path only by a
\* failure or an interrupt; no frame is rendered before the frames are
\* loaded; a looping run never stops the sink for good, never finishes and
\* never returns success.
C33_PlaybackStateMachine ==
    /\ [](renders(trace) # <<>> => frame_contents # None)
    /\ [](loop_gif =>
            /\ phase(play_pc) # "Finished"
            /\ play_result # "ok")
    /\ [][ phase(play_pc') # phase(play_pc) =>
              <<phase(play_pc), phase(play_pc')>> \in phase_steps(loop_gif) ]_vars

\* A looping run is playing its second pass.
C33_Witness ==
    /\ loop_gif
    /\ phase(play_pc) = "Playing"
    /\ pass >= 2
    /\ Len(renders(trace)) > Len(frame_contents[1])

====
